---- MODULE Spec2Model ----
(***************************************************************************)
(* Deep Feature Flow extension of detectron2.                              *)
(*                                                                         *)
(*   Spec        DFFDatasetMapper (projects/DFF/dff/data/dataset_mapper.py) *)
(*               one mapper instance, constructed in training or inference *)
(*               mode, called with arbitrary sample records.               *)
(*   SpecConfig  DFFDatasetMapper.from_config over small configurations.   *)
(*   SpecFlow    flow2img / compute_color (detectron2/utils/               *)
(*               flow_visualizer.py) over small flow fields.               *)
(*   SpecRouted  one inference mapper fed the frames of one sequence, or   *)
(*               of all sequences interleaved.                             *)
(*   SpecWheel   make_color_wheel and the wheel lookup of compute_color    *)
(*               over every normalised angle of the grid.                  *)
(*   SpecTrainer main in eval-only mode and Trainer.test                   *)
(*               (projects/DFF/train_net.py).                              *)
(*                                                                         *)
(* Python's None is the empty tuple, a present value x is <<x>>.           *)
(* Image files are read successfully and have the size their record        *)
(* states (utils.check_image_size passes): I/O errors are not modelled.    *)
(***************************************************************************)
EXTENDS Integers, Sequences, FiniteSets, TLC

VARIABLES
    \* ---- DFFDatasetMapper fields (dataset_mapper.py:82-92)
    is_train,            \* self.is_train
    frame_offset_min,    \* self.frame_offset_min
    frame_offset_max,    \* self.frame_offset_max
    key_frame_duration,  \* self.key_frame_duration
    key_frame_img,       \* self.key_frame_img      (None or an image)
    key_frame_seg_id,    \* self.key_frame_seg_id   (None or an int)
    \* ---- the last call of __call__
    arg,                 \* the record the caller passed (None before any call)
    caller_dict,         \* the caller's record object after the call
    outcome,             \* "none" | "returned" | "AssertionError" | "TypeError"
    image_cur,           \* local image_cur at line 175 (None when the call failed)
    image_ref,           \* local image_ref at line 175 (None when the call failed)
    offset,              \* local offset  (training, video sample)
    ref_id,              \* local ref_id  (training, video sample)
    loaded,              \* files read by read_image during the call
    ret,                 \* the returned dict (None when the call failed)
    fed,                 \* history: the calls so far are frames 0..next-1 of one sequence
    routed,              \* the sequences whose frames the loader sends to this instance
    \* ---- from_config
    cfg,                 \* the configuration from_config is given
    built,               \* "none" | "ok" | "AssertionError"
    vid_image_root,      \* the vid_image_root of the built mapper
    \* ---- flow2img
    flow_data,           \* the flow field given to flow2img (after its in-place masking)
    flow_in,             \* the flow field as it was given
    img,                 \* the image flow2img returns
    maxrad,              \* local maxrad of flow2img
    flow_err,            \* floating-point events of the call
    fpc,                 \* "idle" | "done"
    \* ---- compute_color, one pixel (flow_visualizer.py:86-100)
    angle,               \* a, the normalised angle, in units of 1/Q
    lookup,              \* None, or the locals fk, k0, k1, f and the two table rows
    \* ---- train_net.py: main in eval-only mode and Trainer.test
    NUM_WORKERS,         \* cfg.DATALOADER.NUM_WORKERS
    frozen,              \* cfg.is_frozen()
    AUG_ENABLED,         \* cfg.TEST.AUG.ENABLED
    is_main_process,     \* comm.is_main_process()
    num_workers,         \* local num_workers of Trainer.test (line 121)
    tpc,                 \* position of main / Trainer.test
    eval_workers,        \* NUM_WORKERS as the inherited test run saw it
    eval_results,        \* what the inherited test run produced
    res,                 \* local res of main (line 164)
    verified,            \* the argument main passed to verify_results
    main_ret,            \* what main returned
    workers0             \* history: NUM_WORKERS when Trainer.test was entered

mapperVars == <<is_train, frame_offset_min, frame_offset_max, key_frame_duration,
                key_frame_img, key_frame_seg_id, arg, caller_dict, outcome,
                image_cur, image_ref, offset, ref_id, loaded, ret, fed, routed>>
configVars == <<cfg, built, vid_image_root>>
flowVars   == <<flow_data, flow_in, img, maxrad, flow_err, fpc>>
wheelVars  == <<angle, lookup>>
trainerVars == <<NUM_WORKERS, frozen, AUG_ENABLED, is_main_process, num_workers, tpc,
                 eval_workers, eval_results, res, verified, main_ret, workers0>>
vars       == <<mapperVars, configVars, flowVars, wheelVars, trainerVars>>

None == <<>>
Some(x) == <<x>>
Val(o) == o[1]

Min(x, y) == IF x <= y THEN x ELSE y
Max(x, y) == IF x >= y THEN x ELSE y

(***************************************************************************)
(* Bounds of the model.                                                    *)
(***************************************************************************)
MaxDuration == 3     \* key_frame_duration ranges over 1..MaxDuration
MaxLen      == 4     \* frame_seg_len ranges over 1..MaxLen
NumSeqs     == 2     \* video sequences 1..NumSeqs
MaxOffset   == 1     \* frame_offset_min/max range over -MaxOffset..MaxOffset

(***************************************************************************)
(* Sample records (dataset dicts).  A video frame of sequence s carries    *)
(* the sequence's pattern; a still image (DET set) carries none.           *)
(* A file is <<directory, index>>: directory 0 holds the still images,     *)
(* directory s the frames of sequence s, so that                           *)
(* os.path.join(vid_image_root, pattern.format(i)) is the file <<s, i>>.   *)
(***************************************************************************)
Seqs == 1..NumSeqs
DetDir == 0
AnnoLists == {<<1, 0>>}     \* annotations: the iscrowd flag of each object

WithAnnotations(d) ==
    {d} \cup {d @@ [annotations |-> an] : an \in AnnoLists}

FramePositions == {p \in (0..(MaxLen - 1)) \X (1..MaxLen) : p[1] < p[2]}

VidRecords ==
    UNION { WithAnnotations([file_name |-> <<s, p[1]>>, pattern |-> s,
                             frame_seg_id |-> p[1], frame_seg_len |-> p[2]])
            : s \in Seqs, p \in FramePositions }

DetRecords ==
    WithAnnotations([file_name |-> <<DetDir, 0>>])

HasKey(d, k) == k \in DOMAIN d
\* dict.pop(k, None): the dict without key k
Pop(d, k) == [x \in (DOMAIN d) \ {k} |-> d[x]]

\* read_image(file_name, format): a freshly allocated array holding the file's pixels
read_image(file, site) == [pix |-> file, tf |-> "raw", obj |-> site]
\* ndarray.copy(): the same pixels in a new object
Copy(image, site) == [image EXCEPT !.obj = site]

\* random.randint(lo, hi): any integer N with lo <= N <= hi
randint(lo, hi) == lo..hi

(***************************************************************************)
(* DFFDatasetMapper.__call__  (dataset_mapper.py:124-203)                  *)
(***************************************************************************)
\* line 179: transforms = self.augmentations(aug_input): the transform is drawn
\* from image_cur (its parameters depend on that image and on chance)
Augment(cur) == [drawn_from |-> cur.pix]

\* line 145: offset = random.randint(self.frame_offset_min, self.frame_offset_max + 1)
OffsetDraws == randint(frame_offset_min, frame_offset_max + 1)

\* the clamp with the upper bound off by one
ClampRefId_len(frame_seg_id, off, frame_seg_len) ==
    Min(Max(frame_seg_id + off, 0), frame_seg_len)

\* lines 146-149: ref_id = min(max(frame_seg_id + offset, 0), frame_seg_len - 1)
ClampRefId(frame_seg_id, off, frame_seg_len) ==
    Min(Max(frame_seg_id + off, 0), frame_seg_len - 1)

\* the reference aliasing the current image instead of copying it
DetRef_alias(cur) == cur

\* line 142: image_ref = image_cur.copy()
DetRef(cur) == Copy(cur, "ref")

\* the key-frame test taking the last frame of each window
IsKeyFrame_lastOfWindow(frame_seg_id) ==
    frame_seg_id % key_frame_duration = key_frame_duration - 1

\* line 158: frame_seg_id % self.key_frame_duration == 0
IsKeyFrame(frame_seg_id) == frame_seg_id % key_frame_duration = 0

\* line 163: assert self.key_frame_img is not None, dropped
KeyFrameCached_unchecked == TRUE

\* line 163: self.key_frame_img is not None
KeyFrameCached == key_frame_img # None

\* the window check with its upper bound one too tight
KeyWindowOk_tight(frame_seg_id) ==
    /\ 0 < frame_seg_id - Val(key_frame_seg_id)
    /\ frame_seg_id - Val(key_frame_seg_id) < key_frame_duration - 1

\* the window check without its lower bound
KeyWindowOk_noLower(frame_seg_id) ==
    frame_seg_id - Val(key_frame_seg_id) < key_frame_duration

\* the window check on the distance to the cached key frame, in either direction
KeyWindowOk_abs(frame_seg_id) ==
    /\ frame_seg_id # Val(key_frame_seg_id)
    /\ frame_seg_id - Val(key_frame_seg_id) < key_frame_duration
    /\ Val(key_frame_seg_id) - frame_seg_id < key_frame_duration

\* the window check without its upper bound
KeyWindowOk_noUpper(frame_seg_id) ==
    0 < frame_seg_id - Val(key_frame_seg_id)

\* line 164: 0 < frame_seg_id - self.key_frame_seg_id < self.key_frame_duration
KeyWindowOk(frame_seg_id) ==
    /\ 0 < frame_seg_id - Val(key_frame_seg_id)
    /\ frame_seg_id - Val(key_frame_seg_id) < key_frame_duration

\* the last-frame test off by one
IsLastFrame_offByOne(d) == d.frame_seg_id = d.frame_seg_len

\* line 171: (frame_seg_id + 1) == dataset_dict["frame_seg_len"]
IsLastFrame(d) == d.frame_seg_id + 1 = d.frame_seg_len

\* transforms.apply_image(image), then torch.as_tensor(...): lines 178-189
ApplyImage(t, image) == [pix |-> image.pix, tf |-> t]

\* lines 194-201: the non-crowd objects, transformed
Instances(annos, t) == [objs |-> SelectSeq(annos, LAMBDA c : c = 0), tf |-> t]

\* lines 175-203: augmentation and the returned dict
Finish(d, cur, ref) ==
    LET t  == Augment(cur)
        d2 == [image_cur |-> ApplyImage(t, cur),
               image_ref |-> ApplyImage(t, ref)] @@ d
    IN  IF HasKey(d2, "annotations")
        THEN [instances |-> Instances(d2.annotations, t)] @@ Pop(d2, "annotations")
        ELSE d2

\* line 132 dropped: the call works on the caller's own dict
DeepCopy_alias(d) == [obj |-> "caller", d |-> d]

\* line 132: dataset_dict = copy.deepcopy(dataset_dict): the same contents in a new
\* object
DeepCopy(d) == [obj |-> "copy", d |-> d]

\* the caller's dict once the call is over: the pops and assignments of lines 139,
\* 155, 187-189 and 194-202 act on the object `work` is held in
CallerSees(dd, c, work) == IF c.obj = "caller" THEN work ELSE dd

\* history of the calls: frames 0, 1, ... of one sequence, fed in order to a fresh mapper
Broken == [ok |-> FALSE, seq |-> 0, len |-> 0, next |-> 0]
NextFed(d) ==
    IF /\ fed.ok
       /\ d.frame_seg_id = fed.next
       /\ fed.next = 0 \/ (d.pattern = fed.seq /\ d.frame_seg_len = fed.len)
    THEN [ok |-> TRUE, seq |-> d.pattern, len |-> d.frame_seg_len, next |-> fed.next + 1]
    ELSE Broken

\* the mode test sending every call down the inference branch
TrainBranch_never == FALSE

\* line 138: if self.is_train
TrainBranch == is_train

\* lines 138-151: training mode
CallTrain(dd, off) ==
    /\ TrainBranch
    /\ off \in OffsetDraws
    /\ LET c   == DeepCopy(dd)
           d0  == c.d
           cur == read_image(d0.file_name, "cur")
           d   == Pop(d0, "pattern")
       IN  IF ~HasKey(d0, "pattern")
           THEN \* DET set
                /\ image_ref' = Some(DetRef(cur))
                /\ offset' = None
                /\ ref_id' = None
                /\ loaded' = {d0.file_name}
                /\ image_cur' = Some(cur)
                /\ ret' = Some(Finish(d, cur, DetRef(cur)))
                /\ caller_dict' = Some(CallerSees(dd, c, Finish(d, cur, DetRef(cur))))
           ELSE \* VID set
                LET rid == ClampRefId(d.frame_seg_id, off, d.frame_seg_len)
                    ref == read_image(<<d0.pattern, rid>>, "ref")
                IN  /\ image_ref' = Some(ref)
                    /\ offset' = Some(off)
                    /\ ref_id' = Some(rid)
                    /\ loaded' = {d0.file_name, <<d0.pattern, rid>>}
                    /\ image_cur' = Some(cur)
                    /\ ret' = Some(Finish(d, cur, ref))
                    /\ caller_dict' = Some(CallerSees(dd, c, Finish(d, cur, ref)))
    /\ arg' = Some(dd)
    /\ outcome' = "returned"
    /\ UNCHANGED <<is_train, frame_offset_min, frame_offset_max, key_frame_duration,
                   key_frame_img, key_frame_seg_id, fed, routed>>
    /\ UNCHANGED <<configVars, flowVars, wheelVars, trainerVars>>

\* lines 154-173: inference mode
CallTest(dd) ==
    /\ ~TrainBranch
    /\ HasKey(dd, "frame_seg_id")
    /\ dd.pattern \in routed
    /\ LET c   == DeepCopy(dd)
           d0  == c.d
           cur == read_image(d0.file_name, "cur")
           d   == Pop(d0, "annotations")
           frame_seg_id == d.frame_seg_id
       IN  IF IsKeyFrame(frame_seg_id)
           THEN /\ outcome' = "returned"
                /\ image_cur' = Some(cur)
                /\ image_ref' = Some(Copy(cur, "ref"))
                /\ IF IsLastFrame(d)
                   THEN key_frame_img' = None /\ key_frame_seg_id' = None
                   ELSE /\ key_frame_img' = Some(Copy(cur, "key"))
                        /\ key_frame_seg_id' = Some(frame_seg_id)
                /\ ret' = Some(Finish(d, cur, Copy(cur, "ref")))
                /\ caller_dict' = Some(CallerSees(dd, c, Finish(d, cur, Copy(cur, "ref"))))
           ELSE IF ~KeyFrameCached
                THEN \* line 163
                     /\ outcome' = "AssertionError"
                     /\ image_cur' = None /\ image_ref' = None /\ ret' = None
                     /\ caller_dict' = Some(CallerSees(dd, c, d))
                     /\ UNCHANGED <<key_frame_img, key_frame_seg_id>>
           ELSE IF key_frame_seg_id = None
                THEN \* line 164: int - None
                     /\ outcome' = "TypeError"
                     /\ image_cur' = None /\ image_ref' = None /\ ret' = None
                     /\ caller_dict' = Some(CallerSees(dd, c, d))
                     /\ UNCHANGED <<key_frame_img, key_frame_seg_id>>
           ELSE IF ~KeyWindowOk(frame_seg_id)
                THEN \* line 164
                     /\ outcome' = "AssertionError"
                     /\ image_cur' = None /\ image_ref' = None /\ ret' = None
                     /\ caller_dict' = Some(CallerSees(dd, c, d))
                     /\ UNCHANGED <<key_frame_img, key_frame_seg_id>>
           ELSE /\ outcome' = "returned"
                /\ image_cur' = Some(cur)
                /\ image_ref' = key_frame_img
                /\ IF IsLastFrame(d)
                   THEN key_frame_img' = None /\ key_frame_seg_id' = None
                   ELSE UNCHANGED <<key_frame_img, key_frame_seg_id>>
                /\ ret' = Some(Finish(d, cur, Val(key_frame_img)))
                /\ caller_dict' = Some(CallerSees(dd, c, Finish(d, cur, Val(key_frame_img))))
    /\ loaded' = {dd.file_name}
    /\ offset' = None
    /\ ref_id' = None
    /\ arg' = Some(dd)
    /\ fed' = NextFed(dd)
    /\ UNCHANGED <<is_train, frame_offset_min, frame_offset_max, key_frame_duration,
                   routed>>
    /\ UNCHANGED <<configVars, flowVars, wheelVars, trainerVars>>

\* values of the variables a specification does not use
ConfigIdle == cfg = None /\ built = "none" /\ vid_image_root = None
FlowIdle ==
    /\ flow_data = None /\ flow_in = None /\ img = None
    /\ maxrad = None /\ flow_err = {} /\ fpc = "idle"
MapperIdle ==
    /\ is_train = FALSE /\ frame_offset_min = 0 /\ frame_offset_max = 0
    /\ key_frame_duration = 1
    /\ key_frame_img = None /\ key_frame_seg_id = None
    /\ arg = None /\ caller_dict = None /\ outcome = "none"
    /\ image_cur = None /\ image_ref = None /\ offset = None /\ ref_id = None
    /\ loaded = {} /\ ret = None
    /\ fed = [ok |-> TRUE, seq |-> 0, len |-> 0, next |-> 0]
    /\ routed = Seqs
WheelIdle == angle = 0 /\ lookup = None
TrainerIdle ==
    /\ NUM_WORKERS = 0 /\ frozen = TRUE /\ AUG_ENABLED = FALSE
    /\ is_main_process = TRUE /\ num_workers = None /\ tpc = "idle"
    /\ eval_workers = None /\ eval_results = None /\ res = None
    /\ verified = None /\ main_ret = None /\ workers0 = None

\* __init__ (lines 82-92): a training mapper with any offset range, or an inference
\* mapper with any key frame duration, the cache empty.  The fields a mode never
\* reads (key_frame_duration in training, the offsets in inference) are fixed.
Init ==
    /\ is_train \in BOOLEAN
    /\ frame_offset_min \in IF is_train THEN (-MaxOffset)..MaxOffset ELSE {0}
    /\ frame_offset_max \in IF is_train THEN frame_offset_min..MaxOffset ELSE {0}
    /\ key_frame_duration \in IF is_train THEN {1} ELSE 1..MaxDuration
    /\ key_frame_img = None
    /\ key_frame_seg_id = None
    /\ arg = None /\ caller_dict = None /\ outcome = "none"
    /\ image_cur = None /\ image_ref = None /\ offset = None /\ ref_id = None
    /\ loaded = {} /\ ret = None
    /\ fed = [ok |-> TRUE, seq |-> 0, len |-> 0, next |-> 0]
    /\ routed = Seqs
    /\ ConfigIdle
    /\ FlowIdle
    /\ WheelIdle
    /\ TrainerIdle

Next ==
    \/ \E dd \in VidRecords \cup DetRecords, off \in (-MaxOffset)..(MaxOffset + 1) :
          CallTrain(dd, off)
    \/ \E dd \in VidRecords : CallTest(dd)

Spec == Init /\ [][Next]_vars

(***************************************************************************)
(* An inference mapper behind a loader that sends it the frames of the     *)
(* sequences in routed, in any order: one instance per sequence (routed a  *)
(* single sequence) or one instance shared by all of them.                 *)
(***************************************************************************)
InitRouted ==
    /\ is_train = FALSE
    /\ frame_offset_min = 0
    /\ frame_offset_max = 0
    /\ key_frame_duration \in 1..MaxDuration
    /\ key_frame_img = None
    /\ key_frame_seg_id = None
    /\ arg = None /\ caller_dict = None /\ outcome = "none"
    /\ image_cur = None /\ image_ref = None /\ offset = None /\ ref_id = None
    /\ loaded = {} /\ ret = None
    /\ fed = [ok |-> TRUE, seq |-> 0, len |-> 0, next |-> 0]
    /\ routed \in {{q} : q \in Seqs} \cup {Seqs}
    /\ ConfigIdle
    /\ FlowIdle
    /\ WheelIdle
    /\ TrainerIdle

NextRouted == \E dd \in VidRecords : CallTest(dd)

SpecRouted == InitRouted /\ [][NextRouted]_vars

(***************************************************************************)
(* Floating point, as flow_visualizer.py uses it.                          *)
(* A float is NaN or a finite value held in fixed point: the integer n     *)
(* stands for n / Q.  Results are rounded toward zero to a multiple of     *)
(* 1 / Q, and the products are arranged to stay inside TLC's integers.     *)
(***************************************************************************)
Q == 100       \* resolution of the fixed point: 1.0 is Q

NaN == [nan |-> TRUE, n |-> 0]
Fin(n) == [nan |-> FALSE, n |-> n]
IsNaN(x) == x.nan

Abs(n) == IF n < 0 THEN -n ELSE n
Sign(n) == IF n < 0 THEN -1 ELSE 1

\* np.finfo(float).eps: the smallest step of the fixed point stands for it
EPS == Fin(1)

SqrtLim == 2^15 - 1    \* the largest n whose square, doubled, is an integer of TLC
Coarse  == 2^16        \* larger values are squared in units of Coarse
DivLim  == 2^24        \* the largest n for which n * Q is an integer of TLC

RECURSIVE ISqrtIn(_, _, _)
\* the largest r in lo..hi with r * r <= n (lo * lo <= n)
ISqrtIn(n, lo, hi) ==
    IF lo >= hi THEN lo
    ELSE LET mid == (lo + hi + 1) \div 2
         IN  IF mid * mid <= n THEN ISqrtIn(n, mid, hi) ELSE ISqrtIn(n, lo, mid - 1)
ISqrt(n) == ISqrtIn(n, 0, Min(n, 46340))

\* a * Q / b for a >= 0, b > 0
Ratio(a, b) ==
    IF a <= DivLim THEN (a * Q) \div b
    ELSE IF b >= Q THEN a \div (b \div Q)
    ELSE a * Q

\* x / m (ndarray / scalar).  0 / 0 is NaN (numpy warns "invalid value" and goes
\* on); x / 0 for x # 0 is not needed: maxrad is 0 only when every u and v is 0.
FDiv(x, m) ==
    IF IsNaN(x) \/ IsNaN(m) \/ m.n = 0 THEN NaN
    ELSE Fin(Sign(x.n) * Sign(m.n) * Ratio(Abs(x.n), Abs(m.n)))

FAdd(x, y) == IF IsNaN(x) \/ IsNaN(y) THEN NaN ELSE Fin(x.n + y.n)

\* abs(x) > t: False for NaN
AbsGreater(x, t) == ~IsNaN(x) /\ Abs(x.n) > t.n

\* np.sqrt(u ** 2 + v ** 2) of one pixel
Hypot(u, v) ==
    IF IsNaN(u) \/ IsNaN(v) THEN NaN
    ELSE LET a == Abs(u.n)
             b == Abs(v.n)
         IN  IF a <= SqrtLim /\ b <= SqrtLim
             THEN Fin(ISqrt(a * a + b * b))
             ELSE Fin(Coarse * ISqrt((a \div Coarse) * (a \div Coarse)
                                     + (b \div Coarse) * (b \div Coarse)))

\* np.max(x): NaN when any entry is NaN
RECURSIVE NpMaxFrom(_, _, _)
NpMaxFrom(x, i, best) ==
    IF i > Len(x) THEN best
    ELSE IF IsNaN(x[i]) \/ IsNaN(best) THEN NaN
    ELSE NpMaxFrom(x, i + 1, IF x[i].n > best.n THEN x[i] ELSE best)
NpMax(x) == NpMaxFrom(x, 2, x[1])

\* Python's max(a, b): b when b > a, else a; a comparison with NaN is False
PyMax(a, b) == IF ~IsNaN(a) /\ ~IsNaN(b) /\ b.n > a.n THEN b ELSE a

\* arctan(z) / pi for 0 <= z <= 1, z and the result in units of 1 / Q:
\* arctan(z) ~ (pi / 4) z + 0.273 z (1 - z), exact at 0 and at 1
AtanUnit(z) == (250 * z + (87 * z * (Q - z)) \div Q) \div 1000

\* np.arctan2(-v, -u) / np.pi, in units of 1 / Q, within [-Q, Q].  A zero of u or
\* v is +0.0, whose negation is -0.0: arctan2(-0.0, -0.0) is -pi,
\* arctan2(-0.0, x) is -pi for x < 0 and -0.0 for x > 0.
Atan2NegOverPi(v, u) ==
    LET y  == -v.n
        x  == -u.n
        ay == Abs(y)
        ax == Abs(x)
        base == IF ax = 0 /\ ay = 0 THEN 0
                ELSE IF ax >= ay THEN AtanUnit(Ratio(ay, ax))
                ELSE Q \div 2 - AtanUnit(Ratio(ax, ay))
    IN  IF x = 0 /\ y = 0 THEN -Q
        ELSE IF x > 0 THEN (IF y > 0 THEN base ELSE -base)
        ELSE IF x = 0 THEN (IF y > 0 THEN base ELSE -base)
        ELSE (IF y > 0 THEN Q - base ELSE -(Q - base))

(***************************************************************************)
(* make_color_wheel  (flow_visualizer.py:17-64)                            *)
(***************************************************************************)
RY == 15
YG == 6
GC == 4
CB == 11
BM == 13
MR == 6
ncols == RY + YG + GC + CB + BM + MR

\* np.floor(255 * np.arange(0, n) / n)[j]
Ramp(j, n) == (255 * j) \div n

\* the wheel with col not advanced past BM: MR is written over the first rows of BM
\* and the last MR rows stay zero
make_color_wheel_colStuck ==
    [k \in 0..(ncols - 1) |->
        IF k < RY THEN <<255, Ramp(k, RY), 0>>
        ELSE IF k < RY + YG THEN <<255 - Ramp(k - RY, YG), 255, 0>>
        ELSE IF k < RY + YG + GC THEN <<0, 255, Ramp(k - RY - YG, GC)>>
        ELSE IF k < RY + YG + GC + CB
             THEN <<0, 255 - Ramp(k - RY - YG - GC, CB), 255>>
        ELSE IF k < RY + YG + GC + CB + MR
             THEN <<255, 0, 255 - Ramp(k - RY - YG - GC - CB, MR)>>
        ELSE IF k < RY + YG + GC + CB + BM
             THEN <<Ramp(k - RY - YG - GC - CB, BM), 0, 255>>
        ELSE <<0, 0, 0>>]

\* colorwheel[k], k = 0 .. ncols - 1, as <<channel 0, channel 1, channel 2>>
make_color_wheel ==
    [k \in 0..(ncols - 1) |->
        IF k < RY THEN <<255, Ramp(k, RY), 0>>
        ELSE IF k < RY + YG THEN <<255 - Ramp(k - RY, YG), 255, 0>>
        ELSE IF k < RY + YG + GC THEN <<0, 255, Ramp(k - RY - YG, GC)>>
        ELSE IF k < RY + YG + GC + CB
             THEN <<0, 255 - Ramp(k - RY - YG - GC, CB), 255>>
        ELSE IF k < RY + YG + GC + CB + BM
             THEN <<Ramp(k - RY - YG - GC - CB, BM), 0, 255>>
        ELSE <<255, 0, 255 - Ramp(k - RY - YG - GC - CB - BM, MR)>>]

(***************************************************************************)
(* compute_color  (flow_visualizer.py:67-109), pixel by pixel              *)
(***************************************************************************)
\* line 88: fk = (a + 1) / 2 * (ncols - 1) + 1, in units of 1 / Q
WheelPos(a) == ((a + Q) * (ncols - 1)) \div 2 + Q
\* line 90: k0 = np.floor(fk).astype(int)
WheelK0(fk) == fk \div Q
\* k1 without the wrap of line 93
WheelK1_noWrap(k0) == k0 + 1
\* lines 92-93: k1 = k0 + 1; k1[k1 == ncols + 1] = 1
WheelK1(k0) == IF k0 + 1 = ncols + 1 THEN 1 ELSE k0 + 1
\* line 94: f = fk - k0, in units of 1 / Q
WheelFrac(fk, k0) == fk - k0 * Q
\* tmp[k]: a Python index, negative ones counted from the end
WheelAt(k, i) == make_color_wheel[k % ncols][i]

\* lines 78-79: NAN_idx = np.isnan(u) | np.isnan(v)
NanIdx(u, v) == IsNaN(u) \/ IsNaN(v)

\* lines 96-107 for channel i of one pixel
PixelChannel(u, v, i) ==
    LET nan_idx == NanIdx(u, v)
        u0  == IF nan_idx THEN Fin(0) ELSE u
        v0  == IF nan_idx THEN Fin(0) ELSE v
        rad == Hypot(u0, v0).n
        a   == Atan2NegOverPi(v0, u0)
        fk  == WheelPos(a)
        k0  == WheelK0(fk)
        k1  == WheelK1(k0)
        f   == WheelFrac(fk, k0)
        \* col = (1 - f) * col0 + f * col1, in units of 1 / (255 Q)
        col == (Q - f) * WheelAt(k0 - 1, i) + f * WheelAt(k1 - 1, i)
        \* col[idx] = 1 - rad[idx] * (1 - col[idx]);  col[notidx] *= 0.75
        shaded == IF rad <= Q
                  THEN 255 * Q - (rad * (255 * Q - col)) \div Q
                  ELSE (3 * col) \div 4
    IN  \* np.uint8(np.floor(255 * col * (1 - NAN_idx)))
        IF nan_idx THEN 0 ELSE (shaded \div Q) % 256

compute_color(u, v) ==
    [p \in DOMAIN u |-> <<PixelChannel(u[p], v[p], 1),
                          PixelChannel(u[p], v[p], 2),
                          PixelChannel(u[p], v[p], 3)>>]

(***************************************************************************)
(* compute_color for one pixel of normalised angle a = arctan2(-v, -u)/pi, *)
(* any value of [-1, 1] on the grid of 1/Q: the wheel is built (line 81)   *)
(* and the two rows are looked up (lines 88-99).                           *)
(***************************************************************************)
\* tmp[k0 - 1] and tmp[k1 - 1] for the three channels: a row of the wheel
WheelRow(k) == <<WheelAt(k, 1), WheelAt(k, 2), WheelAt(k, 3)>>

WheelLookup ==
    /\ lookup = None
    /\ LET fk == WheelPos(angle)
           k0 == WheelK0(fk)
           k1 == WheelK1(k0)
       IN  lookup' = Some([colorwheel |-> make_color_wheel,
                           fk |-> fk, k0 |-> k0, k1 |-> k1,
                           f |-> WheelFrac(fk, k0),
                           col0 |-> WheelRow(k0 - 1),
                           col1 |-> WheelRow(k1 - 1)])
    /\ UNCHANGED angle
    /\ UNCHANGED <<mapperVars, configVars, flowVars, trainerVars>>

InitWheel ==
    /\ angle \in (-Q)..Q
    /\ lookup = None
    /\ MapperIdle
    /\ ConfigIdle
    /\ FlowIdle
    /\ TrainerIdle

NextWheel == WheelLookup

SpecWheel == InitWheel /\ [][NextWheel]_vars

(***************************************************************************)
(* flow2img  (flow_visualizer.py:112-149)                                  *)
(* A flow field is a sequence of pixels [u |-> float, v |-> float].        *)
(***************************************************************************)
UNKNOW_FLOW_THRESHOLD == 10000000
Threshold == Fin(UNKNOW_FLOW_THRESHOLD * Q)

\* the flow keeping only the unknown test of u
IdxUnknown_onlyU(px) == AbsGreater(px.u, Threshold)

\* lines 124-126: idx_unknown = (abs(u) > T) | (abs(v) > T)
IdxUnknown(px) == AbsGreater(px.u, Threshold) \/ AbsGreater(px.v, Threshold)

\* line 127: u[idx_unknown] = v[idx_unknown] = 0 (in place, in flow_data)
MaskUnknown(flow) ==
    [p \in DOMAIN flow |->
        IF IdxUnknown(flow[p]) THEN [u |-> Fin(0), v |-> Fin(0)] ELSE flow[p]]

\* lines 139-140: rad = np.sqrt(u ** 2 + v ** 2); maxrad = max(-1, np.max(rad))
MaxRad(masked) ==
    PyMax(Fin(-Q), NpMax([p \in DOMAIN masked |-> Hypot(masked[p].u, masked[p].v)]))

\* lines 141-142: u / maxrad + np.finfo(float).eps
Normalise(x, m) == FAdd(FDiv(x, m), EPS)

\* lines 146-147: img[idx] = 0
MaskImage(image, flow) ==
    [p \in DOMAIN image |-> IF IdxUnknown(flow[p]) THEN <<0, 0, 0>> ELSE image[p]]

\* the floating-point warnings numpy raises in line 141-142
FlowWarnings(masked, m) ==
    IF ~IsNaN(m) /\ m.n = 0
    THEN {"invalid value encountered in divide"}
    ELSE {}

flow2img(flow) ==
    LET masked == MaskUnknown(flow)
        m  == MaxRad(masked)
        u  == [p \in DOMAIN flow |-> Normalise(masked[p].u, m)]
        v  == [p \in DOMAIN flow |-> Normalise(masked[p].v, m)]
    IN  [flow_data |-> masked,
         maxrad    |-> m,
         u         |-> u,
         v         |-> v,
         warnings  |-> FlowWarnings(masked, m),
         img       |-> MaskImage(compute_color(u, v), flow)]

NumPixels == 2     \* pixels of a flow field

\* the values of u and v tried: no motion, one pixel either way, values beyond
\* the threshold either way, NaN
FlowVals ==
    {Fin(0), Fin(Q), Fin(-Q),
     Fin((UNKNOW_FLOW_THRESHOLD + 1) * Q), Fin(-(UNKNOW_FLOW_THRESHOLD + 1) * Q), NaN}

FlowFields == [1..NumPixels -> [u : FlowVals, v : FlowVals]]

Flow2Img ==
    /\ fpc = "idle"
    /\ LET r == flow2img(Val(flow_in))
       IN  /\ flow_data' = Some(r.flow_data)
           /\ maxrad' = Some(r.maxrad)
           /\ flow_err' = r.warnings
           /\ img' = Some(r.img)
    /\ fpc' = "done"
    /\ UNCHANGED flow_in
    /\ UNCHANGED <<mapperVars, configVars, wheelVars, trainerVars>>

InitFlow ==
    /\ flow_in \in {Some(f) : f \in FlowFields}
    /\ flow_data = flow_in
    /\ img = None /\ maxrad = None /\ flow_err = {} /\ fpc = "idle"
    /\ MapperIdle
    /\ ConfigIdle
    /\ WheelIdle
    /\ TrainerIdle

NextFlow == Flow2Img

SpecFlow == InitFlow /\ [][NextFlow]_vars

(***************************************************************************)
(* DFFDatasetMapper.from_config  (dataset_mapper.py:98-122)                *)
(* A dataset name is a string, a sequence of characters.  Every dataset    *)
(* of cfg.DATASETS.TRAIN is registered in the MetadataCatalog with an      *)
(* img_dir of its own.                                                     *)
(***************************************************************************)
MaxChars == 5      \* characters of the names of cfg.DATASETS.TRAIN, together

Alphabet == {"v", "i", "d"}

\* the strings of exactly n characters
RECURSIVE Strings(_)
Strings(n) ==
    IF n = 0 THEN {<<>>}
    ELSE {<<c>> \o w : c \in Alphabet, w \in Strings(n - 1)}

\* the tuples of non-empty names with at most n characters together
RECURSIVE NameTuples(_)
NameTuples(n) ==
    {<<>>} \cup UNION { {<<name>> \o rest : name \in Strings(k), rest \in NameTuples(n - k)}
                        : k \in 1..n }

Configs ==
    {[DATASETS_TRAIN |-> names,
      FRAME_OFFSET_RANGE |-> <<-MaxOffset, MaxOffset>>,
      KEY_FRAME_DURATION |-> MaxDuration] : names \in NameTuples(MaxChars)}

\* MetadataCatalog.get(set_name).img_dir
ImgDir(set_name) == [img_dir_of |-> set_name]

\* the test with startswith in place of in
ContainsVid_prefix(set_name) ==
    Len(set_name) >= 3 /\ SubSeq(set_name, 1, 3) = <<"v", "i", "d">>

\* line 107: "vid" in set_name
ContainsVid(set_name) ==
    \E i \in 1..(Len(set_name) - 2) : SubSeq(set_name, i, i + 2) = <<"v", "i", "d">>

\* lines 104-108: the loop over cfg.DATASETS.TRAIN, from entry i on
RECURSIVE ScanVidRoot(_, _, _)
ScanVidRoot(names, i, root) ==
    IF i > Len(names) THEN root
    ELSE ScanVidRoot(names, i + 1,
                     IF ContainsVid(names[i]) THEN Some(ImgDir(names[i])) ELSE root)

\* from_config followed by __init__ (the @configurable constructor)
FromConfig(train) ==
    /\ LET root == ScanVidRoot(Val(cfg).DATASETS_TRAIN, 1, None)
       IN  IF root = None
           THEN \* line 110: assert vid_image_root is not None
                /\ built' = "AssertionError"
                /\ vid_image_root' = None
                /\ is_train' = FALSE
                /\ frame_offset_min' = 0 /\ frame_offset_max' = 0
                /\ key_frame_duration' = 1
           ELSE /\ built' = "ok"
                /\ vid_image_root' = root
                /\ is_train' = train
                /\ frame_offset_min' = Val(cfg).FRAME_OFFSET_RANGE[1]
                /\ frame_offset_max' = Val(cfg).FRAME_OFFSET_RANGE[2]
                /\ key_frame_duration' = Val(cfg).KEY_FRAME_DURATION
    /\ UNCHANGED cfg
    /\ UNCHANGED <<key_frame_img, key_frame_seg_id, arg, caller_dict, outcome,
                   image_cur, image_ref, offset, ref_id, loaded, ret, fed, routed>>
    /\ UNCHANGED <<flowVars, wheelVars, trainerVars>>

InitConfig ==
    /\ cfg \in {Some(c) : c \in Configs}
    /\ built = "none"
    /\ vid_image_root = None
    /\ MapperIdle
    /\ FlowIdle
    /\ WheelIdle
    /\ TrainerIdle

NextConfig == \E train \in BOOLEAN : FromConfig(train)

SpecConfig == InitConfig /\ [][NextConfig]_vars

(***************************************************************************)
(* train_net.py: main in eval-only mode (lines 159-169) and Trainer.test   *)
(* (lines 119-137).  The configuration is frozen by setup (line 147).      *)
(* The inherited test run (super().test, line 130) reads                   *)
(* cfg.DATALOADER.NUM_WORKERS to build its loaders and either returns a    *)
(* results dict or raises (build_evaluator raises NotImplementedError at   *)
(* line 100, a frame may fail the mapper's assertions of lines 163-164).   *)
(* A Python value is None or <<x>>; a call that did not happen is None, a  *)
(* call that was handed the value v is <<v>>.                              *)
(***************************************************************************)
MaxWorkers == 4      \* cfg.DATALOADER.NUM_WORKERS ranges over 0..MaxWorkers
NumResults == 3      \* the results dicts an evaluation can produce: 1..NumResults

EvalResults == 1..NumResults

\* lines 126-128 and 135-137: cfg.defrost(); cfg.DATALOADER.NUM_WORKERS = n; cfg.freeze()
SetWorkers(n) ==
    /\ NUM_WORKERS' = n
    /\ frozen' = TRUE

\* line 164 up to the call of line 130: Trainer.test is entered and starts the
\* inherited test run
TestEnter ==
    /\ tpc = "main"
    /\ num_workers' = Some(NUM_WORKERS)
    /\ workers0' = Some(NUM_WORKERS)
    /\ IF NUM_WORKERS # 0
       THEN SetWorkers(0)
       ELSE UNCHANGED <<NUM_WORKERS, frozen>>
    /\ tpc' = "evaluating"
    /\ UNCHANGED <<AUG_ENABLED, is_main_process, eval_workers, eval_results, res,
                   verified, main_ret>>
    /\ UNCHANGED <<mapperVars, configVars, flowVars, wheelVars>>

\* lines 130-137: the inherited test run returns results r, which line 130 drops;
\* the worker count is put back; Trainer.test ends without a return statement, so
\* line 164 binds res to None
EvalReturn(r) ==
    /\ tpc = "evaluating"
    /\ eval_workers' = Some(NUM_WORKERS)
    /\ eval_results' = Some(r)
    /\ IF Val(num_workers) # 0
       THEN SetWorkers(Val(num_workers))
       ELSE UNCHANGED <<NUM_WORKERS, frozen>>
    /\ res' = None
    /\ tpc' = "tested"
    /\ UNCHANGED <<AUG_ENABLED, is_main_process, num_workers, verified, main_ret,
                   workers0>>
    /\ UNCHANGED <<mapperVars, configVars, flowVars, wheelVars>>

\* line 130: the inherited test run raises; nothing catches the exception, which
\* leaves Trainer.test and main
EvalRaise ==
    /\ tpc = "evaluating"
    /\ eval_workers' = Some(NUM_WORKERS)
    /\ tpc' = "raised"
    /\ UNCHANGED <<NUM_WORKERS, frozen, AUG_ENABLED, is_main_process, num_workers,
                   eval_results, res, verified, main_ret, workers0>>
    /\ UNCHANGED <<mapperVars, configVars, flowVars, wheelVars>>

\* lines 165-169
MainFinish ==
    /\ tpc = "tested"
    /\ IF AUG_ENABLED
       THEN \* line 166: res.update, an attribute of None
            /\ tpc' = "AttributeError"
            /\ UNCHANGED <<verified, main_ret>>
       ELSE /\ verified' = IF is_main_process THEN Some(res) ELSE None
            /\ main_ret' = Some(res)
            /\ tpc' = "returned"
    /\ UNCHANGED <<NUM_WORKERS, frozen, AUG_ENABLED, is_main_process, num_workers,
                   eval_workers, eval_results, res, workers0>>
    /\ UNCHANGED <<mapperVars, configVars, flowVars, wheelVars>>

InitTrainer ==
    /\ NUM_WORKERS \in 0..MaxWorkers
    /\ frozen = TRUE
    /\ AUG_ENABLED \in BOOLEAN
    /\ is_main_process \in BOOLEAN
    /\ num_workers = None /\ tpc = "main"
    /\ eval_workers = None /\ eval_results = None /\ res = None
    /\ verified = None /\ main_ret = None /\ workers0 = None
    /\ MapperIdle
    /\ ConfigIdle
    /\ FlowIdle
    /\ WheelIdle

NextTrainer ==
    \/ TestEnter
    \/ \E r \in EvalResults : EvalReturn(r)
    \/ EvalRaise
    \/ MainFinish

SpecTrainer == InitTrainer /\ [][NextTrainer]_vars

(***************************************************************************)
(* Properties of DFFDatasetMapper.__call__ (checked under Spec).           *)
(***************************************************************************)
LastArg == Val(arg)

\* C1: in inference mode, the frames 0, 1, ..., of one sequence fed in order to a
\* fresh mapper never fail, and frame i is paired with itself when i is a
\* multiple of key_frame_duration and with frame D * floor(i / D) otherwise.
C1_InOrderFeedPairsKeyFrame ==
    (~is_train /\ fed.ok /\ fed.next >= 1) =>
        LET i == fed.next - 1
            D == key_frame_duration
        IN  /\ outcome = "returned"
            /\ LastArg.frame_seg_id = i
            /\ Val(image_cur).pix = <<fed.seq, i>>
            /\ Val(image_ref).pix =
                   IF i % D = 0 THEN Val(image_cur).pix ELSE <<fed.seq, D * (i \div D)>>

\* a whole sequence with two key frames was fed in order, its last frame a non-key frame
C1_Witness ==
    /\ ~is_train /\ fed.ok /\ fed.next = fed.len
    /\ key_frame_duration > 1
    /\ fed.len > key_frame_duration + 1
    /\ (fed.len - 1) % key_frame_duration # 0
    /\ outcome = "returned"
    /\ Val(image_ref).pix = <<fed.seq, key_frame_duration>>

\* C2 (as claimed): in inference mode every out-of-order call within a sequence
\* (a frame_seg_id not greater than the one processed before it, or a non-key
\* frame at or beyond the cached key frame id + key_frame_duration) fails.
C2_OutOfOrderAlwaysFails ==
    [][ ( /\ ~is_train
          /\ arg # None /\ outcome = "returned"
          /\ arg' # None
          /\ Val(arg').pattern = LastArg.pattern
          /\ \/ Val(arg').frame_seg_id <= LastArg.frame_seg_id
             \/ /\ key_frame_seg_id # None
                /\ Val(arg').frame_seg_id % key_frame_duration # 0
                /\ Val(arg').frame_seg_id >= Val(key_frame_seg_id) + key_frame_duration )
        => (outcome' = "AssertionError" /\ ret' = None) ]_vars

\* C2 (amended): in inference mode a call returns exactly when its frame is a key
\* frame or lies strictly inside the window of the cached key frame
\* (key id < frame_seg_id < key id + key_frame_duration); every other call,
\* a non-key frame at or before the cached key frame, at or beyond key id +
\* key_frame_duration, or with an empty cache, fails with an assertion
\* and returns nothing.
C2_ReturnsIffKeyOrInWindow ==
    [][ (~is_train /\ arg' # None) =>
            LET id == Val(arg').frame_seg_id
                D  == key_frame_duration
                accepted ==
                    \/ id % D = 0
                    \/ /\ key_frame_img # None
                       /\ Val(key_frame_seg_id) < id
                       /\ id < Val(key_frame_seg_id) + D
            IN  /\ accepted => (outcome' = "returned" /\ ret' # None)
                /\ ~accepted => (outcome' = "AssertionError" /\ ret' = None) ]_vars

\* a backward jump to a non-key frame before the cached key frame has failed
C2_Witness ==
    /\ ~is_train /\ outcome = "AssertionError"
    /\ key_frame_seg_id # None
    /\ LastArg.frame_seg_id < Val(key_frame_seg_id)

\* C3: in training mode the offset drawn for a video sample lies in
\* [frame_offset_min, frame_offset_max].
C3_OffsetWithinRange ==
    (is_train /\ offset # None) =>
        Val(offset) \in frame_offset_min..frame_offset_max

\* C4: in inference mode, after a call on the last frame of a sequence returns the
\* cache is empty (image and id both None); after a returned call on any other
\* frame the cache is set.
C4_CacheClearedAtLastFrame ==
    (~is_train /\ outcome = "returned") =>
        IF LastArg.frame_seg_id + 1 = LastArg.frame_seg_len
        THEN key_frame_img = None /\ key_frame_seg_id = None
        ELSE key_frame_img # None /\ key_frame_seg_id # None

\* the last frame of a sequence, a non-key frame, has returned
C4_Witness ==
    /\ ~is_train /\ outcome = "returned"
    /\ LastArg.frame_seg_id + 1 = LastArg.frame_seg_len
    /\ LastArg.frame_seg_id % key_frame_duration # 0
    /\ key_frame_img = None

\* C5: in inference mode a non-key frame requested while the cache is empty fails
\* with an assertion and leaves the cache as it was.
C5_NonKeyOnEmptyCacheFails ==
    [][ ( /\ ~is_train
          /\ key_frame_img = None /\ key_frame_seg_id = None
          /\ arg' # None
          /\ Val(arg').frame_seg_id % key_frame_duration # 0 )
        => /\ outcome' = "AssertionError"
           /\ ret' = None
           /\ key_frame_img' = key_frame_img
           /\ key_frame_seg_id' = key_frame_seg_id ]_vars

\* a non-key frame has failed on an empty cache after earlier calls
C5_Witness ==
    /\ ~is_train /\ outcome = "AssertionError"
    /\ key_frame_img = None /\ key_frame_seg_id = None
    /\ LastArg.frame_seg_id % key_frame_duration # 0
    /\ ~fed.ok

\* C6: in training mode, for a video sample, ref_id is frame_seg_id + offset
\* clamped into [0, frame_seg_len - 1], and that frame is the one loaded.
C6_RefIdClamped ==
    (is_train /\ ref_id # None) =>
        LET L   == LastArg.frame_seg_len
            sum == LastArg.frame_seg_id + Val(offset)
            rid == Val(ref_id)
        IN  /\ rid \in 0..(L - 1)
            /\ sum \in 0..(L - 1) => rid = sum
            /\ sum < 0 => rid = 0
            /\ sum > L - 1 => rid = L - 1
            /\ Val(image_ref).pix = <<LastArg.pattern, rid>>

\* an offset past the end of the sequence was clamped to the last frame
C6_Witness ==
    /\ is_train /\ ref_id # None
    /\ LastArg.frame_seg_id + Val(offset) > LastArg.frame_seg_len - 1
    /\ Val(ref_id) = LastArg.frame_seg_len - 1

\* C7: in training mode, for a sample without pattern, the reference image has the
\* pixels of the current image, is another object, and no other file is read.
C7_StillImageSelfPaired ==
    (is_train /\ arg # None /\ ~HasKey(LastArg, "pattern")) =>
        /\ Val(image_ref).pix = Val(image_cur).pix
        /\ Val(image_ref).obj # Val(image_cur).obj
        /\ loaded = {LastArg.file_name}

\* a still image was mapped in training mode
C7_Witness ==
    /\ is_train /\ outcome = "returned"
    /\ ~HasKey(LastArg, "pattern")
    /\ Val(image_ref).pix = <<DetDir, 0>>

(***************************************************************************)
(* Properties of flow2img (checked under SpecFlow).                        *)
(***************************************************************************)
FlowIn == Val(flow_in)
Pixels == DOMAIN FlowIn
\* |x| > 1e7, stated on the input
Beyond(x) == ~x.nan /\ (x.n > UNKNOW_FLOW_THRESHOLD * Q \/ x.n < -(UNKNOW_FLOW_THRESHOLD * Q))
UnknownIn(p) == Beyond(FlowIn[p].u) \/ Beyond(FlowIn[p].v)

\* C8: flow2img of an all-zero flow field is uniformly white (255, 255, 255),
\* the maxrad it divides by is not zero, and no invalid division (0 / 0, a NaN)
\* happens on the way.
C8_ZeroFlowIsWhite ==
    (fpc = "done" /\ \A p \in Pixels : FlowIn[p] = [u |-> Fin(0), v |-> Fin(0)]) =>
        /\ \A p \in Pixels : Val(img)[p] = <<255, 255, 255>>
        /\ Val(maxrad).n # 0
        /\ flow_err = {}

\* C9: every pixel with |u| > 1e7 or |v| > 1e7 comes out (0, 0, 0), whatever its
\* other component and the other pixels are, and counts as zero in maxrad:
\* maxrad is the largest radius of the other pixels (-1 when one of them is NaN).
C9_UnknownPixelsBlack ==
    fpc = "done" =>
        LET radKnown == [p \in Pixels |->
                            IF UnknownIn(p) THEN Fin(0)
                            ELSE Hypot(FlowIn[p].u, FlowIn[p].v)]
        IN  /\ \A p \in Pixels : UnknownIn(p) => Val(img)[p] = <<0, 0, 0>>
            /\ Val(maxrad) = IF \E p \in Pixels : radKnown[p].nan THEN Fin(-Q)
                             ELSE NpMax(radKnown)
            /\ \A p \in Pixels : UnknownIn(p) =>
                   Val(flow_data)[p] = [u |-> Fin(0), v |-> Fin(0)]

\* a pixel unknown by its v alone (u = 1) next to a moving pixel that has a colour
C9_Witness ==
    /\ fpc = "done"
    /\ \E p, q \in Pixels :
          /\ FlowIn[p].u = Fin(Q) /\ Beyond(FlowIn[p].v)
          /\ Val(img)[p] = <<0, 0, 0>>
          /\ ~UnknownIn(q) /\ FlowIn[q] = [u |-> Fin(-Q), v |-> Fin(Q)]
          /\ Val(img)[q] # <<0, 0, 0>>
          /\ Val(maxrad) = Hypot(Fin(-Q), Fin(Q))

(***************************************************************************)
(* Properties of DFFDatasetMapper.from_config (checked under SpecConfig).  *)
(***************************************************************************)
TrainNames == Val(cfg).DATASETS_TRAIN
\* the name holds the characters v, i, d in a row
HasVid(name) ==
    \E i \in DOMAIN name :
        i + 2 \in DOMAIN name /\ name[i] = "v" /\ name[i + 1] = "i" /\ name[i + 2] = "d"

\* C10: building the mapper (for training or for inference) fails exactly when no
\* name of cfg.DATASETS.TRAIN contains "vid"; otherwise it succeeds and
\* vid_image_root is the img_dir of a training dataset whose name contains "vid".
C10_BuildFailsIffNoVid ==
    built # "none" =>
        /\ built = "AssertionError" <=> ~\E k \in DOMAIN TrainNames : HasVid(TrainNames[k])
        /\ built # "AssertionError" =>
              /\ built = "ok"
              /\ \E k \in DOMAIN TrainNames :
                    /\ HasVid(TrainNames[k])
                    /\ vid_image_root = Some(ImgDir(TrainNames[k]))

\* an inference mapper built from two datasets, "vid" inside the name of the second
C10_Witness ==
    /\ built = "ok" /\ ~is_train
    /\ Len(TrainNames) = 2
    /\ ~HasVid(TrainNames[1])
    /\ TrainNames[2] = <<"d", "v", "i", "d">>
    /\ vid_image_root = Some(ImgDir(TrainNames[2]))

\* C11: whatever the calls before it were, an inference call for a non-key frame
\* that returns found the cache set with
\* key_frame_seg_id < frame_seg_id < key_frame_seg_id + key_frame_duration, so the
\* cached id is key_frame_duration * floor(frame_seg_id / key_frame_duration), and
\* the call is paired with the cached image.
C11_ReturnedNonKeyInsideWindow ==
    [][ ( /\ ~is_train
          /\ arg' # None
          /\ outcome' = "returned"
          /\ ~IsKeyFrame(Val(arg').frame_seg_id) )
        => /\ key_frame_seg_id # None
           /\ Val(key_frame_seg_id) < Val(arg').frame_seg_id
           /\ Val(arg').frame_seg_id < Val(key_frame_seg_id) + key_frame_duration
           /\ Val(key_frame_seg_id)
                = key_frame_duration * (Val(arg').frame_seg_id \div key_frame_duration)
           /\ image_ref' = key_frame_img ]_vars

\* a non-key frame of a later window returned, in a feed that did not start at frame 0
C11_Witness ==
    /\ ~is_train
    /\ arg # None
    /\ outcome = "returned"
    /\ ~fed.ok
    /\ ~IsKeyFrame(LastArg.frame_seg_id)
    /\ LastArg.frame_seg_id > key_frame_duration
    /\ Val(image_ref).pix
         = <<LastArg.pattern,
             key_frame_duration * (LastArg.frame_seg_id \div key_frame_duration)>>

\* the two cache fields are empty together; a cached id is a non-negative multiple of
\* key_frame_duration and the cached image is an image of a frame with that id
CacheConsistent ==
    /\ key_frame_img = None <=> key_frame_seg_id = None
    /\ key_frame_seg_id # None
       => /\ Val(key_frame_seg_id) >= 0
          /\ Val(key_frame_seg_id) % key_frame_duration = 0
          /\ Val(key_frame_img).pix[2] = Val(key_frame_seg_id)

\* a call that leaves the cache set either processed a frame with the cached id, and
\* the cache then holds that frame's image, or left both cache fields as they were
CacheHoldsLatest ==
    key_frame_img' # None
    => IF Val(arg').frame_seg_id = Val(key_frame_seg_id')
       THEN Val(key_frame_img').pix = Val(arg').file_name
       ELSE key_frame_img' = key_frame_img /\ key_frame_seg_id' = key_frame_seg_id

\* C15: between inference calls the cache fields are both empty or both set; when
\* set, key_frame_seg_id is a non-negative multiple of key_frame_duration and the
\* cached image is the image of the most recently processed frame with that id.
C15_CacheFieldsPaired ==
    [](~is_train => CacheConsistent) /\ [][~is_train => CacheHoldsLatest]_vars

\* the cache holds a later key frame of one sequence and has survived a failed call
\* for a frame of another sequence
C15_Witness ==
    /\ ~is_train
    /\ key_frame_seg_id # None
    /\ Val(key_frame_seg_id) > 0
    /\ outcome = "AssertionError"
    /\ LastArg.frame_seg_id # Val(key_frame_seg_id)
    /\ LastArg.pattern # Val(key_frame_img).pix[1]
    /\ Val(key_frame_img).pix[2] = Val(key_frame_seg_id)

\* the reference image of a training call as a function of the record and the draw
TrainRefOf(d, off) ==
    IF ~HasKey(d, "pattern")
    THEN Copy(read_image(d.file_name, "cur"), "ref")
    ELSE read_image(<<d.pattern, ClampRefId(d.frame_seg_id, Val(off), d.frame_seg_len)>>,
                    "ref")

\* C16: on a mapper constructed with is_train = True, after any sequence of calls
\* (still-image or video samples) key_frame_img and key_frame_seg_id are still None,
\* and the reference frame of a call is determined by that call's record and offset
\* draw alone, whatever the calls before it.
C16_TrainingLeavesCacheAlone ==
    /\ [](is_train => (key_frame_img = None /\ key_frame_seg_id = None))
    /\ [][ is_train
           => /\ key_frame_img' = None /\ key_frame_seg_id' = None
              /\ outcome' = "returned"
              /\ HasKey(Val(arg'), "pattern") <=> offset' # None
              /\ image_ref' = Some(TrainRefOf(Val(arg'), offset'))
              /\ Val(ret').image_ref.pix = TrainRefOf(Val(arg'), offset').pix ]_vars

\* a video sample paired with another frame of its sequence, right after a call for
\* a different record, the cache still empty
C16_Witness ==
    /\ is_train
    /\ outcome = "returned"
    /\ HasKey(LastArg, "pattern")
    /\ Val(ref_id) # LastArg.frame_seg_id
    /\ Val(image_ref).pix = <<LastArg.pattern, Val(ref_id)>>
    /\ key_frame_img = None
    /\ key_frame_seg_id = None

\* C18: a call, in either mode and whether it returns or fails, leaves the caller's
\* record as it was passed; the returned dict is another object, without the pattern
\* and annotations keys and with image_cur, image_ref (and, in training, instances
\* for annotated records) added.
C18_CallerRecordUnchanged ==
    arg # None
    => /\ caller_dict = arg
       /\ outcome = "returned"
          => /\ ~HasKey(Val(ret), "annotations")
             /\ is_train => ~HasKey(Val(ret), "pattern")
             /\ HasKey(Val(ret), "image_cur") /\ HasKey(Val(ret), "image_ref")
             /\ HasKey(Val(ret), "instances")
                  <=> (is_train /\ HasKey(LastArg, "annotations"))
             /\ DOMAIN Val(caller_dict) \cap {"image_cur", "image_ref", "instances"} = {}

\* an inference call for an annotated frame failed after line 155 had removed the
\* annotations: the caller's record still carries them
C18_Witness ==
    /\ ~is_train
    /\ arg # None
    /\ outcome = "AssertionError"
    /\ HasKey(LastArg, "annotations")
    /\ HasKey(Val(caller_dict), "annotations")
    /\ Val(caller_dict) = LastArg

(***************************************************************************)
(* Properties of the key-frame cache under routing (checked under          *)
(* SpecRouted).                                                            *)
(***************************************************************************)
\* the last call returned a frame paired with an image of another sequence
CrossPaired ==
    /\ arg # None
    /\ outcome = "returned"
    /\ Val(image_ref).pix[1] # LastArg.pattern

\* C12: a returned frame is paired with an image of another sequence only by an
\* instance shared between sequences; an instance that is sent the frames of one
\* sequence only, in whatever order, pairs every frame it returns with key frame
\* key_frame_duration * floor(frame_seg_id / key_frame_duration) of its own sequence.
\* (An instance shared by two sequences does reach such a pairing: C12_Witness.)
C12_OwnInstanceNeverCrossPairs ==
    /\ CrossPaired => Cardinality(routed) > 1
    /\ (arg # None /\ outcome = "returned" /\ Cardinality(routed) = 1)
       => Val(image_ref).pix
            = <<LastArg.pattern,
                key_frame_duration * (LastArg.frame_seg_id \div key_frame_duration)>>

\* interleaved through one instance, a non-key frame of one sequence was returned,
\* without failure, with the cached key-frame image of the other sequence
C12_Witness ==
    /\ Cardinality(routed) > 1
    /\ CrossPaired
    /\ ~IsKeyFrame(LastArg.frame_seg_id)
    /\ ret # None
    /\ Val(ret).image_ref.pix[1] # LastArg.pattern

(***************************************************************************)
(* Properties of Trainer.test and main (checked under SpecTrainer).        *)
(***************************************************************************)
\* Trainer.test has been left, by a return or by an exception
TestLeft == tpc \in {"tested", "raised", "returned", "AttributeError"}

\* C13: the inherited test run sees cfg.DATALOADER.NUM_WORKERS = 0, and once
\* Trainer.test has been left, by a return or by an exception of the evaluation,
\* NUM_WORKERS is the value it had on entry and the configuration is frozen.
C13_WorkersZeroThenRestored ==
    /\ tpc = "evaluating" => NUM_WORKERS = 0
    /\ eval_workers # None => Val(eval_workers) = 0
    /\ TestLeft => (NUM_WORKERS = Val(workers0) /\ frozen)

\* C17: in eval-only mode the value main binds to res, passes to verify_results and
\* returns is the results dict the inherited test run produced.
C17_MainReturnsEvalResults ==
    /\ tpc \in {"tested", "returned"} => res = eval_results
    /\ tpc = "returned"
       => /\ main_ret = Some(eval_results)
          /\ is_main_process => verified = Some(eval_results)

(***************************************************************************)
(* Properties of the colour wheel and its lookup (checked under SpecWheel). *)
(***************************************************************************)
Looked == Val(lookup)

\* C14: for every normalised angle a in [-1, 1], 1 <= k0 <= 55 and 1 <= k1 <= 55,
\* k1 = k0 + 1 when k0 < 55 and k1 = 1 when k0 = 55, the blend fraction f = fk - k0
\* lies in [0, 1), and the lookups at k0 - 1 and k1 - 1 index inside the 55-entry
\* table.
C14_WheelIndicesInRange ==
    lookup # None
    => /\ 1 <= Looked.k0 /\ Looked.k0 <= 55
       /\ 1 <= Looked.k1 /\ Looked.k1 <= 55
       /\ Looked.k0 < 55 => Looked.k1 = Looked.k0 + 1
       /\ Looked.k0 = 55 => Looked.k1 = 1
       /\ 0 <= Looked.f /\ Looked.f < Q
       /\ Cardinality(DOMAIN Looked.colorwheel) = 55
       /\ (Looked.k0 - 1) \in DOMAIN Looked.colorwheel
       /\ (Looked.k1 - 1) \in DOMAIN Looked.colorwheel
       /\ Looked.col0 = Looked.colorwheel[Looked.k0 - 1]
       /\ Looked.col1 = Looked.colorwheel[Looked.k1 - 1]

\* the angle a = 1: the top of the wheel wraps round to its first entry
C14_Witness ==
    /\ lookup # None
    /\ angle = Q
    /\ Looked.k0 = 55
    /\ Looked.k1 = 1
    /\ Looked.f = 0
    /\ Looked.col1 = <<255, 0, 0>>

\* first row of each of the six segments, and the row after the last
SegStart == <<0, 15, 21, 25, 36, 49, 55>>
\* per segment: the channel held at 255, the channel held at 0, the ramp channel
\* and the value the ramp starts from
SegShape == << <<1, 3, 2, 0>>, <<2, 3, 1, 255>>, <<2, 1, 3, 0>>,
               <<3, 1, 2, 255>>, <<3, 2, 1, 0>>, <<1, 2, 3, 255>> >>

\* C19: make_color_wheel returns exactly 55 entries, laid out as consecutive segments
\* of sizes 15, 6, 4, 11, 13, 6 (each starting at its pure colour), and every entry
\* is fully saturated: a channel equal to 255, a channel equal to 0, all channels
\* integers in [0, 255].
C19_WheelLayoutSaturated ==
    lookup # None
    => LET w == Looked.colorwheel
       IN  /\ DOMAIN w = 0..54
           /\ \A g \in 1..6 :
                 /\ SegStart[g + 1] - SegStart[g] = <<15, 6, 4, 11, 13, 6>>[g]
                 /\ w[SegStart[g]][SegShape[g][3]] = SegShape[g][4]
                 /\ \A k \in SegStart[g]..(SegStart[g + 1] - 1) :
                       /\ w[k][SegShape[g][1]] = 255
                       /\ w[k][SegShape[g][2]] = 0
           /\ \A k \in DOMAIN w :
                 /\ \E i \in 1..3 : w[k][i] = 255
                 /\ \E i \in 1..3 : w[k][i] = 0
                 /\ \A i \in 1..3 : w[k][i] \in 0..255

\* a lookup in the last segment: the last row of the wheel
C19_Witness ==
    /\ lookup # None
    /\ Looked.k0 = 55
    /\ Looked.col0 = <<255, 0, 43>>
    /\ Looked.colorwheel[54] = <<255, 0, 43>>
    /\ Looked.colorwheel[48] = <<235, 0, 255>>

====
